---- MODULE Spec2Model ----
(***************************************************************************)
(* SynBioBLAST: the harvester (slurper.go) that pages an upstream SPARQL   *)
(* endpoint into FASTA files and a Redis dedup index, and the query        *)
(* service (synbioblast.go) that maps BLAST hits back to source URIs.      *)
(*                                                                         *)
(* Strings are sequences of symbols, so that strings.ToLower and the       *)
(* digest are computed symbol by symbol.  "" is <<>>.                      *)
(***************************************************************************)
EXTENDS Integers, Sequences, FiniteSets, TLC

\* ------------------------------------------------------------- bounds
MaxUpstream == 3

\* -synbiohub.resultLimit: the page size N (a flag, default 100)
resultLimit == 2

\* the most hits one search returns, and the most requests a run serves
MaxHits == 2
MaxRequests == 2

\* the goroutines net/http runs blastHandler in, one per request in flight
Handlers == {"h1", "h2"}

\* redis.ErrRespNil: GET on a key that does not exist
Nil == -1

\* ------------------------------------------------------------ strings
EmptyStr == <<>>

ToLowerChar(c) ==
    CASE c = "A" -> "a"
      [] c = "C" -> "c"
      [] OTHER -> c

\* strings.ToLower
ToLower(s) == [k \in DOMAIN s |-> ToLowerChar(s[k])]

ToLowerMissing(s) == s

\* parse: sequences[i].Sequence = strings.ToLower(nucl)
Normalize(nucl) == ToLower(nucl)

HashBase == 5

CharCode(c) ==
    CASE c = "a" -> 1
      [] c = "c" -> 2
      [] c = "A" -> 3
      [] c = "C" -> 4

RECURSIVE Digest(_)
Digest(s) ==
    IF s = <<>> THEN 0
    ELSE Digest(SubSeq(s, 1, Len(s) - 1)) * HashBase + CharCode(s[Len(s)])

\* sequence.Hash: the SHA-1 of the Sequence field as it stands (a digest
\* that tells any two different strings of the model apart)
Hash(seq) == Digest(seq.Sequence)

\* ----------------------------------------------------- upstream records
Binding(n, v) == [Name |-> n, Value |-> v]

\* one <result> of the SPARQL reply: its bindings
Result(u, e, t) ==
    (IF u = EmptyStr THEN <<>> ELSE <<Binding("uri", u)>>)
    \o (IF e = EmptyStr THEN <<>> ELSE <<Binding("elements", e)>>)
    \o (IF t = EmptyStr THEN <<>> ELSE <<Binding("created", t)>>)

RFC3339Times == {<<"2020-01-01T00:00:00Z">>, <<"2020-01-02T00:00:00Z">>}

\* the records the upstream may hold: well-formed ones, and one lacking
\* each of the three fields
RecordPool ==
    { Result(<<"u1">>, <<"A", "C">>, <<"2020-01-01T00:00:00Z">>),
      Result(<<"u2">>, <<"a", "c">>, <<"2020-01-02T00:00:00Z">>),
      Result(<<"u3">>, <<"c">>, <<"2020-01-02T00:00:00Z">>),
      Result(EmptyStr, <<"a", "c">>, <<"2020-01-02T00:00:00Z">>),
      Result(<<"u1">>, EmptyStr, <<"2020-01-02T00:00:00Z">>),
      Result(<<"u2">>, <<"c">>, EmptyStr) }

RECURSIVE getValue(_, _)
getValue(r, name) ==
    IF r = <<>> THEN EmptyStr
    ELSE IF Head(r).Name = name THEN Head(r).Value
    ELSE getValue(Tail(r), name)

\* time.Parse(time.RFC3339, s): whether it succeeds
parseSparqlTime(s) == s \in RFC3339Times

Min(a, b) == IF a < b THEN a ELSE b

PageOffByOne(up, off, limit) == SubSeq(up, off + 2, Min(off + 1 + limit, Len(up)))

\* LIMIT {{.Limit}} OFFSET {{.Offset}} over the ordered upstream
Page(up, off, limit) == SubSeq(up, off + 1, Min(off + limit, Len(up)))

\* the body fetch returns: the page, or bytes that are no SPARQL XML
XmlBody(results) == [xml |-> TRUE, Results |-> results]
BadBody == [xml |-> FALSE, Results |-> <<>>]

ParseOne(r) ==
    [URI |-> getValue(r, "uri"),
     Sequence |-> Normalize(getValue(r, "elements")),
     Created |-> getValue(r, "created")]

\* parse: "xml" / "time" are its two log.Fatal exits
parseErr(bytes) ==
    IF ~bytes.xml THEN "xml"
    ELSE IF \E k \in DOMAIN bytes.Results :
                ~parseSparqlTime(getValue(bytes.Results[k], "created"))
         THEN "time"
    ELSE "none"

parse(bytes) == [k \in DOMAIN bytes.Results |-> ParseOne(bytes.Results[k])]

\* ------------------------------------------------------- store helpers
\* Redis: a key that does not exist reads as the empty set
SMembers(db, key) == IF key \in DOMAIN db THEN db[key] ELSE {}

SAddReplace(db, key, member) == (key :> {member}) @@ db

SAddDropped(db, key, member) == db

\* SADD key member
SAdd(db, key, member) == (key :> (SMembers(db, key) \cup {member})) @@ db

IncrByLimit(cur, seqs) == (IF cur = Nil THEN 0 ELSE cur) + resultLimit

\* INCRBY key len(seqs): an absent key counts as 0
IncrBy(cur, seqs) == (IF cur = Nil THEN 0 ELSE cur) + Len(seqs)

\* fmt.Sprintf(">%s\n%s\n", hash, seq.Sequence)
FastaFile(seq) == << <<">", Hash(seq)>>, seq.Sequence >>

EmptyFile == <<>>

\* ioutil.WriteFile opens with O_WRONLY|O_CREATE|O_TRUNC ...
OpenTrunc(fs, name) == (name :> EmptyFile) @@ fs

\* ... and then writes the data
WriteData(fs, name, data) == (name :> data) @@ fs

\* ---------------------------------------------------------------- state
VARIABLES
    upstream,    \* the upstream's ordered records (append-only)
    cursor,      \* Redis key sequenceoffset: Nil or the offset
    hashSet,     \* Redis set sequenceHashSet
    seqSet,      \* Redis sets sequence:<hash>, by hash
    files,       \* the fasta directory: file content by hash
    pc,          \* where the harvester process is
    offset,      \* main's local offset
    bytes,       \* main's local bytes
    seqs,        \* main's local seqs
    idx,         \* process: the record the loop is at
    fatal,       \* the log.Fatal that ended the last run, until the next run
                 \* has read its offset ("" : none, or a crash)
    sumPages,    \* history: the sizes of the pages whose INCRBY was applied, summed
    phase,       \* history: "clean", "running", "interrupted", "recovered"
    rpc,         \* query service: where each request handler is
    hits,        \* per handler: r.Results[i].SeqHash, in the search tool's order
    qi,          \* per handler: the index of getURIs' running loop
    uris,        \* per handler: r.Results[i].URIs, as far as assigned
    from,        \* history, per handler: the lookup each assigned reply answers
    settled,     \* history, per handler: ingestion was complete when the request came
    rid,         \* history, per handler: the number of the request it serves (0: none)
    lookupErr,   \* history, per handler: a lookup of the request it serves has failed
    pending,     \* redisClient: the requests appended and not yet sent
    completed,   \* redisClient: the replies read and not yet handed out
    lastCritical,\* redisClient: an I/O error has closed the connection
    nreq,        \* history: the requests accepted so far
    old,         \* the service without the index: per handler, where
                 \* blastHandler is, what Blast returned, the response
    oldReq       \* history: the requests that service has accepted

hvars == <<upstream, cursor, hashSet, seqSet, files, pc, offset, bytes, seqs,
           idx, fatal, sumPages, phase>>

qvars == <<rpc, hits, qi, uris, from, settled, rid, lookupErr, pending, completed, lastCritical, nreq>>

ovars == <<old, oldReq>>

vars == <<hvars, qvars, ovars>>

CursorVal == IF cursor = Nil THEN 0 ELSE cursor

StoringPcs == {"open", "write", "saddHash", "saddURI"}

NoLocals == /\ offset' = 0
            /\ bytes' = BadBody
            /\ seqs' = <<>>
            /\ idx' = 0

\* the process ends: log.Fatal, or a crash
Die(why) ==
    /\ pc' = "dead"
    /\ fatal' = why
    /\ NoLocals
    /\ phase' = IF phase = "running" THEN "interrupted" ELSE phase

\* a handler of the service without the index, between requests
OldIdle == [pc |-> "idle", result |-> "nil", err |-> FALSE, out |-> "none"]

\* both processes have just been started; the upstream holds up
Boot(up) ==
    /\ upstream = up
    /\ cursor = Nil
    /\ hashSet = {}
    /\ seqSet = <<>>
    /\ files = <<>>
    /\ pc = "start"
    /\ offset = 0
    /\ bytes = BadBody
    /\ seqs = <<>>
    /\ idx = 0
    /\ fatal = ""
    /\ sumPages = 0
    /\ phase = "clean"
    /\ rpc = [c \in Handlers |-> "idle"]
    /\ hits = [c \in Handlers |-> <<>>]
    /\ qi = [c \in Handlers |-> 0]
    /\ uris = [c \in Handlers |-> <<>>]
    /\ from = [c \in Handlers |-> <<>>]
    /\ settled = [c \in Handlers |-> FALSE]
    /\ rid = [c \in Handlers |-> 0]
    /\ lookupErr = [c \in Handlers |-> FALSE]
    /\ pending = <<>>
    /\ completed = <<>>
    /\ lastCritical = FALSE
    /\ nreq = 0
    /\ old = [c \in Handlers |-> OldIdle]
    /\ oldReq = 0

Init == Boot(<<>>)

\* ------------------------------------------------------------- upstream
UpstreamAppend ==
    /\ Len(upstream) < MaxUpstream
    /\ \E r \in RecordPool : upstream' = Append(upstream, r)
    /\ UNCHANGED <<cursor, hashSet, seqSet, files, pc, offset, bytes, seqs,
                   idx, fatal, sumPages, phase>>
    /\ UNCHANGED <<qvars, ovars>>

\* ------------------------------------------------------------ harvester
\* main: GET sequenceoffset
GetOffset ==
    /\ pc = "start"
    /\ \/ /\ cursor = Nil
          /\ pc' = "setZero"
          /\ UNCHANGED offset
       \/ /\ cursor # Nil
          /\ offset' = cursor
          /\ pc' = "fetch"
    /\ fatal' = ""
    /\ UNCHANGED <<upstream, cursor, hashSet, seqSet, files, bytes, seqs, idx,
                   sumPages, phase>>
    /\ UNCHANGED <<qvars, ovars>>

GetOffsetFail ==
    /\ pc = "start"
    /\ Die("couldn't get offset val")
    /\ UNCHANGED <<upstream, cursor, hashSet, seqSet, files, sumPages>>
    /\ UNCHANGED <<qvars, ovars>>

\* main: SET sequenceoffset 0
SetZero ==
    /\ pc = "setZero"
    /\ cursor' = 0
    /\ offset' = 0
    /\ pc' = "fetch"
    /\ UNCHANGED <<upstream, hashSet, seqSet, files, bytes, seqs, idx, fatal,
                   sumPages, phase>>
    /\ UNCHANGED <<qvars, ovars>>

\* the SET fails: the server applied it or not
SetZeroFail ==
    /\ pc = "setZero"
    /\ \E applied \in BOOLEAN : cursor' = IF applied THEN 0 ELSE cursor
    /\ Die("couldn't set initial offset value")
    /\ UNCHANGED <<upstream, hashSet, seqSet, files, sumPages>>
    /\ UNCHANGED <<qvars, ovars>>

\* fetch(offset): the page at the local offset, or a body that is no XML
Fetch ==
    /\ pc = "fetch"
    /\ \/ bytes' = XmlBody(Page(upstream, offset, resultLimit))
       \/ bytes' = BadBody
    /\ pc' = "parse"
    /\ UNCHANGED <<upstream, cursor, hashSet, seqSet, files, offset, seqs, idx,
                   fatal, sumPages, phase>>
    /\ UNCHANGED <<qvars, ovars>>

FetchFail ==
    /\ pc = "fetch"
    /\ Die("couldn't make request")
    /\ UNCHANGED <<upstream, cursor, hashSet, seqSet, files, sumPages>>
    /\ UNCHANGED <<qvars, ovars>>

AfterParseSkip(s) == "incr"

\* main: process(client, seqs) comes before the INCRBY
AfterParse(s) == IF Len(s) = 0 THEN "incr" ELSE "open"

\* parse(bytes)
Parse ==
    /\ pc = "parse"
    /\ IF parseErr(bytes) # "none"
       THEN /\ Die("couldn't parse " \o parseErr(bytes))
            /\ UNCHANGED <<upstream, cursor, hashSet, seqSet, files, sumPages>>
       ELSE /\ seqs' = parse(bytes)
            /\ idx' = 1
            /\ pc' = AfterParse(parse(bytes))
            /\ UNCHANGED <<upstream, cursor, hashSet, seqSet, files, offset,
                           bytes, fatal, sumPages, phase>>
    /\ UNCHANGED <<qvars, ovars>>

\* process: ioutil.WriteFile, its open
WriteOpen ==
    /\ pc = "open"
    /\ files' = OpenTrunc(files, Hash(seqs[idx]))
    /\ pc' = "write"
    /\ phase' = IF phase \in {"clean", "recovered"} THEN "running" ELSE phase
    /\ UNCHANGED <<upstream, cursor, hashSet, seqSet, offset, bytes, seqs, idx,
                   fatal, sumPages>>
    /\ UNCHANGED <<qvars, ovars>>

\* process: ioutil.WriteFile, its write
WriteBody ==
    /\ pc = "write"
    /\ files' = WriteData(files, Hash(seqs[idx]), FastaFile(seqs[idx]))
    /\ pc' = "saddHash"
    /\ UNCHANGED <<upstream, cursor, hashSet, seqSet, offset, bytes, seqs, idx,
                   fatal, sumPages, phase>>
    /\ UNCHANGED <<qvars, ovars>>

WriteFail ==
    /\ pc \in {"open", "write"}
    /\ Die("couldn't write file")
    /\ UNCHANGED <<upstream, cursor, hashSet, seqSet, files, sumPages>>
    /\ UNCHANGED <<qvars, ovars>>

\* process: SADD sequenceHashSet hash
SAddHash ==
    /\ pc = "saddHash"
    /\ hashSet' = hashSet \cup {Hash(seqs[idx])}
    /\ pc' = "saddURI"
    /\ UNCHANGED <<upstream, cursor, seqSet, files, offset, bytes, seqs, idx,
                   fatal, sumPages, phase>>
    /\ UNCHANGED <<qvars, ovars>>

SAddHashFail ==
    /\ pc = "saddHash"
    /\ \E applied \in BOOLEAN :
          hashSet' = IF applied THEN hashSet \cup {Hash(seqs[idx])} ELSE hashSet
    /\ Die("couldn't add hash to dedup set")
    /\ UNCHANGED <<upstream, cursor, seqSet, files, sumPages>>
    /\ UNCHANGED <<qvars, ovars>>

\* process: SADD sequence:<hash> uri, and the loop's next record
SAddURI ==
    /\ pc = "saddURI"
    /\ seqSet' = SAdd(seqSet, Hash(seqs[idx]), seqs[idx].URI)
    /\ IF idx < Len(seqs)
       THEN /\ idx' = idx + 1
            /\ pc' = "open"
            /\ UNCHANGED phase
       ELSE /\ idx' = idx
            /\ pc' = "incr"
            /\ phase' = IF phase = "interrupted" THEN "recovered" ELSE "clean"
    /\ UNCHANGED <<upstream, cursor, hashSet, files, offset, bytes, seqs,
                   fatal, sumPages>>
    /\ UNCHANGED <<qvars, ovars>>

SAddURIFail ==
    /\ pc = "saddURI"
    /\ \E applied \in BOOLEAN :
          seqSet' = IF applied
                    THEN SAdd(seqSet, Hash(seqs[idx]), seqs[idx].URI)
                    ELSE seqSet
    /\ Die("couldn't add uri to sequence set")
    /\ UNCHANGED <<upstream, cursor, hashSet, files, sumPages>>
    /\ UNCHANGED <<qvars, ovars>>

\* main: INCRBY sequenceoffset len(seqs), then the choice of the sleep
SleepOnFullPageToo(n) == IF n <= resultLimit THEN "sleepLong" ELSE "sleepShort"

\* main: four hours if len(seqs) < *resultLimit, two seconds otherwise
Sleep(n) == IF n < resultLimit THEN "sleepLong" ELSE "sleepShort"

Advance ==
    /\ pc = "incr"
    /\ cursor' = IncrBy(cursor, seqs)
    /\ offset' = IncrBy(cursor, seqs)
    /\ sumPages' = sumPages + Len(seqs)
    /\ pc' = Sleep(Len(seqs))
    /\ phase' = "clean"
    /\ UNCHANGED <<upstream, hashSet, seqSet, files, bytes, seqs, idx, fatal>>
    /\ UNCHANGED <<qvars, ovars>>

\* the INCRBY fails: the server applied it or not
AdvanceFail ==
    /\ pc = "incr"
    /\ \/ /\ cursor' = IncrBy(cursor, seqs)
          /\ sumPages' = sumPages + Len(seqs)
          /\ pc' = "dead"
          /\ fatal' = "couldn't update offset with new records"
          /\ NoLocals
          /\ phase' = "clean"
       \/ /\ Die("couldn't update offset with new records")
          /\ UNCHANGED <<cursor, sumPages>>
    /\ UNCHANGED <<upstream, hashSet, seqSet, files>>
    /\ UNCHANGED <<qvars, ovars>>

\* main: time.Sleep is over, the loop goes again
Wake ==
    /\ pc \in {"sleepLong", "sleepShort"}
    /\ pc' = "fetch"
    /\ bytes' = BadBody
    /\ seqs' = <<>>
    /\ idx' = 0
    /\ UNCHANGED <<upstream, cursor, hashSet, seqSet, files, offset, fatal,
                   sumPages, phase>>
    /\ UNCHANGED <<qvars, ovars>>

\* the process is killed at any point
Crash ==
    /\ pc # "dead"
    /\ Die("")
    /\ UNCHANGED <<upstream, cursor, hashSet, seqSet, files, sumPages>>
    /\ UNCHANGED <<qvars, ovars>>

\* the supervisor starts the process again
Restart ==
    /\ pc = "dead"
    /\ pc' = "start"
    /\ UNCHANGED <<upstream, cursor, hashSet, seqSet, files, offset, bytes,
                   seqs, idx, fatal, sumPages, phase>>
    /\ UNCHANGED <<qvars, ovars>>

Harvester ==
    \/ GetOffset \/ GetOffsetFail \/ SetZero \/ SetZeroFail
    \/ Fetch \/ FetchFail \/ Parse
    \/ WriteOpen \/ WriteBody \/ WriteFail
    \/ SAddHash \/ SAddHashFail \/ SAddURI \/ SAddURIFail
    \/ Advance \/ AdvanceFail \/ Wake
    \/ Crash \/ Restart

Next == UpstreamAppend \/ Harvester

Spec == Init /\ [][Next]_vars

\* -------------------------------------------------------- query service
\* what the upstream holds while the query service is looked at
QUpstream ==
    << Result(<<"u1">>, <<"A", "C">>, <<"2020-01-01T00:00:00Z">>),
       Result(<<"u2">>, <<"a", "c">>, <<"2020-01-02T00:00:00Z">>) >>

\* the Hit_def values blastn may report: the hash of "ac", and one (of "c")
\* that the dedup index never gets
HitHashes == {Digest(<<"a", "c">>), Digest(<<"c">>)}

HitLists == UNION {[1..n -> HitHashes] : n \in 0..MaxHits}

\* Blast: blastn ran and parseResults unmarshalled its hits; getURIs begins
BlastSearch(c) ==
    /\ rpc[c] = "idle"
    /\ nreq < MaxRequests
    /\ nreq' = nreq + 1
    /\ \E hs \in HitLists :
          /\ hits' = [hits EXCEPT ![c] = hs]
          /\ rpc' = [rpc EXCEPT ![c] = IF hs = <<>> THEN "done" ELSE "append"]
    /\ qi' = [qi EXCEPT ![c] = 1]
    /\ uris' = [uris EXCEPT ![c] = <<>>]
    /\ from' = [from EXCEPT ![c] = <<>>]
    /\ settled' = [settled EXCEPT ![c] =
                      pc = "sleepLong" /\ CursorVal = Len(upstream)]
    /\ rid' = [rid EXCEPT ![c] = nreq + 1]
    /\ lookupErr' = [lookupErr EXCEPT ![c] = FALSE]
    /\ UNCHANGED <<pending, completed, lastCritical>>
    /\ UNCHANGED <<hvars, ovars>>

\* Blast: cmd.CombinedOutput or xml.Unmarshal returns an error
BlastFail(c) ==
    /\ rpc[c] = "idle"
    /\ nreq < MaxRequests
    /\ nreq' = nreq + 1
    /\ rpc' = [rpc EXCEPT ![c] = "failed"]
    /\ UNCHANGED <<hits, qi, uris, from, settled, rid, lookupErr, pending,
                   completed, lastCritical>>
    /\ UNCHANGED <<hvars, ovars>>

\* getURIs, first loop: redisClient.PipeAppend("SMEMBERS", key)
PipeAppend(c) ==
    /\ rpc[c] = "append"
    /\ pending' = Append(pending, [key |-> hits[c][qi[c]], by |-> c,
                                   call |-> rid[c], pos |-> qi[c]])
    /\ IF qi[c] < Len(hits[c])
       THEN /\ qi' = [qi EXCEPT ![c] = qi[c] + 1]
            /\ UNCHANGED rpc
       ELSE /\ qi' = [qi EXCEPT ![c] = 1]
            /\ rpc' = [rpc EXCEPT ![c] = "resp"]
    /\ UNCHANGED <<hits, uris, from, settled, rid, lookupErr, completed,
                   lastCritical, nreq>>
    /\ UNCHANGED <<hvars, ovars>>

\* the server's reply to one SMEMBERS
ReplyTo(req, db) ==
    [key |-> req.key, by |-> req.by, call |-> req.call, pos |-> req.pos,
     err |-> "none", val |-> SMembers(db, req.key)]

ErrReply(req, kind) ==
    [key |-> req.key, by |-> req.by, call |-> req.call, pos |-> req.pos,
     err |-> kind, val |-> {}]

\* the replies ReadResp collects for the requests sent: all of them, or an
\* error reply of the server at one place, or an I/O error from one place on
Replies(reqs, db) ==
    {[k \in DOMAIN reqs |-> ReplyTo(reqs[k], db)]}
    \cup {[k \in DOMAIN reqs |->
              IF k = j THEN ErrReply(reqs[k], "app") ELSE ReplyTo(reqs[k], db)] :
          j \in DOMAIN reqs}
    \cup {[k \in DOMAIN reqs |->
              IF k >= j THEN ErrReply(reqs[k], "io") ELSE ReplyTo(reqs[k], db)] :
          j \in DOMAIN reqs}

\* getURIs returns err; parseResults returns nil, err
LookupFailed(c) ==
    /\ rpc' = [rpc EXCEPT ![c] = "failed"]
    /\ uris' = [uris EXCEPT ![c] = <<>>]
    /\ from' = [from EXCEPT ![c] = <<>>]
    /\ UNCHANGED qi

\* getURIs, second loop: uris, err := resp.List(); r.Results[i].URIs = uris
Take(c, r) ==
    IF r.err # "none"
    THEN LookupFailed(c)
    ELSE /\ uris' = [uris EXCEPT ![c] = Append(uris[c], r.val)]
         /\ from' = [from EXCEPT ![c] =
                        Append(from[c], [key |-> r.key, by |-> r.by,
                                         call |-> r.call, pos |-> r.pos])]
         /\ IF qi[c] < Len(hits[c])
            THEN /\ qi' = [qi EXCEPT ![c] = qi[c] + 1]
                 /\ UNCHANGED rpc
            ELSE /\ rpc' = [rpc EXCEPT ![c] = "done"]
                 /\ UNCHANGED qi

AfterSPop(db, key) == [k \in DOMAIN db \ {key} |-> db[k]]

\* the server runs SMEMBERS key: the set stays as it is
AfterSMembers(db, key) == db

\* the server runs the requests sent, in their order
RECURSIVE ServerRun(_, _)
ServerRun(reqs, db) ==
    IF reqs = <<>> THEN db
    ELSE ServerRun(Tail(reqs), AfterSMembers(db, Head(reqs).key))

\* the handlers whose request in service has a lookup among the failed ones
Owners(failed) ==
    {c \in Handlers : /\ rpc[c] \in {"append", "resp"}
                      /\ \E k \in DOMAIN failed : /\ failed[k].by = c
                                                  /\ failed[k].call = rid[c]}

NoteFailed(failed) ==
    lookupErr' = [c \in Handlers |-> lookupErr[c] \/ c \in Owners(failed)]

ErrorsOf(rs) == SelectSeq(rs, LAMBDA r : r.err # "none")

\* getURIs, second loop: redisClient.PipeResp() on the shared client
PipeResp(c) ==
    /\ rpc[c] = "resp"
    /\ \/ /\ lastCritical
          /\ LookupFailed(c)
          /\ UNCHANGED <<pending, completed, lastCritical, lookupErr, seqSet>>
       \/ /\ ~lastCritical
          /\ completed # <<>>
          /\ Take(c, Head(completed))
          /\ completed' = Tail(completed)
          /\ UNCHANGED <<pending, lastCritical, lookupErr, seqSet>>
       \/ /\ ~lastCritical
          /\ completed = <<>>
          /\ pending = <<>>
          /\ LookupFailed(c)
          /\ UNCHANGED <<pending, completed, lastCritical, lookupErr, seqSet>>
       \/ /\ ~lastCritical
          /\ completed = <<>>
          /\ pending # <<>>
          /\ pending' = <<>>
          /\ \/ /\ lastCritical' = TRUE
                /\ LookupFailed(c)
                /\ NoteFailed(pending)
                /\ UNCHANGED <<completed, seqSet>>
             \/ /\ seqSet' = ServerRun(pending, seqSet)
                /\ \E rs \in Replies(pending, seqSet) :
                      /\ NoteFailed(ErrorsOf(rs))
                      /\ IF \E k \in DOMAIN rs : rs[k].err = "io"
                         THEN /\ lastCritical' = TRUE
                              /\ completed' = rs
                              /\ LookupFailed(c)
                         ELSE /\ lastCritical' = FALSE
                              /\ completed' = Tail(rs)
                              /\ Take(c, rs[1])
    /\ UNCHANGED <<hits, settled, rid, nreq>>
    /\ UNCHANGED <<upstream, cursor, hashSet, files, pc, offset, bytes, seqs,
                   idx, fatal, sumPages, phase, ovars>>

\* blastHandler: the response is written and the handler returns
Finish(c) ==
    /\ rpc[c] \in {"done", "failed"}
    /\ rpc' = [rpc EXCEPT ![c] = "idle"]
    /\ hits' = [hits EXCEPT ![c] = <<>>]
    /\ qi' = [qi EXCEPT ![c] = 0]
    /\ uris' = [uris EXCEPT ![c] = <<>>]
    /\ from' = [from EXCEPT ![c] = <<>>]
    /\ settled' = [settled EXCEPT ![c] = FALSE]
    /\ rid' = [rid EXCEPT ![c] = 0]
    /\ lookupErr' = [lookupErr EXCEPT ![c] = FALSE]
    /\ UNCHANGED <<pending, completed, lastCritical, nreq>>
    /\ UNCHANGED <<hvars, ovars>>

\* one handler goroutine: blastHandler from the request to the response
Serve(c) ==
    \/ BlastSearch(c) \/ BlastFail(c)
    \/ PipeAppend(c) \/ PipeResp(c)
    \/ Finish(c)

Query == \E c \in Handlers : Serve(c)

\* the harvester at work beside the query service
InitQ == Boot(QUpstream)

Ingest ==
    \/ GetOffset \/ SetZero \/ Fetch \/ Parse
    \/ WriteOpen \/ WriteBody \/ SAddHash \/ SAddURI
    \/ Advance \/ Wake

NextQ == Query \/ Ingest

SpecQ == InitQ /\ [][NextQ]_vars

\* the same with the requests coming one after the other
FirstHandler == CHOOSE c \in Handlers : TRUE

NextQ1 == Serve(FirstHandler) \/ Ingest

SpecQ1 == InitQ /\ [][NextQ1]_vars

\* ------------------------------------ the service without the dedup index
\* Blast: what it returns when StdinPipe fails, when blastn cannot be run or
\* exits with an error, and when blastn succeeds
OldBlastReturns ==
    { [result |-> "nil", err |-> TRUE],
      [result |-> "BlastResult", err |-> TRUE],
      [result |-> "BlastResult", err |-> FALSE] }

\* blastHandler: result, err := Blast(seq)
OldBlast(c) ==
    /\ old[c].pc = "idle"
    /\ oldReq < MaxRequests
    /\ oldReq' = oldReq + 1
    /\ \E r \in OldBlastReturns :
          old' = [old EXCEPT ![c] = [pc |-> "called", result |-> r.result,
                                     err |-> r.err, out |-> "none"]]
    /\ UNCHANGED <<hvars, qvars>>

\* blastHandler: if err != nil { http.Error(w, ..., 500) }, and it goes on
OldCheckErr(c) ==
    /\ old[c].pc = "called"
    /\ old' = [old EXCEPT ![c].pc = "render",
                          ![c].out = IF old[c].err THEN "500" ELSE "none"]
    /\ UNCHANGED <<hvars, qvars, oldReq>>

\* blastHandler: templates.ExecuteTemplate(w, "blast.html", *result); a nil
\* result panics, the server recovers and closes the connection with the
\* response unsent
OldRender(c) ==
    /\ old[c].pc = "render"
    /\ IF old[c].result = "nil"
       THEN old' = [old EXCEPT ![c].pc = "panicked", ![c].out = "closed"]
       ELSE old' = [old EXCEPT ![c].pc = "returned",
                               ![c].out = IF old[c].out = "none" THEN "200"
                                          ELSE old[c].out]
    /\ UNCHANGED <<hvars, qvars, oldReq>>

\* the handler's goroutine is over; the server takes the next request
OldReturn(c) ==
    /\ old[c].pc \in {"returned", "panicked"}
    /\ old' = [old EXCEPT ![c] = OldIdle]
    /\ UNCHANGED <<hvars, qvars, oldReq>>

NextOld ==
    \E c \in Handlers :
        \/ OldBlast(c) \/ OldCheckErr(c) \/ OldRender(c) \/ OldReturn(c)

SpecOld == Init /\ [][NextOld]_vars

\* ------------------------------------- the harvester on a stable upstream
\* the records that have a uri, elements and a created time
WellFormedPool ==
    {r \in RecordPool :
        \A name \in {"uri", "elements", "created"} : getValue(r, name) # EmptyStr}

StableUpstreams == UNION {[1..n -> WellFormedPool] : n \in 0..MaxUpstream}

InitLive == \E up \in StableUpstreams : Boot(up)

\* the process takes its next step when it can, a sleep ends, and the
\* supervisor starts a dead process again; failures may come at any time
SpecLive == InitLive /\ [][Harvester]_vars /\ WF_vars(Ingest \/ Restart)

\* ------------------------------------------------------------ properties
Stored(s) ==
    /\ Hash(s) \in DOMAIN files
    /\ files[Hash(s)] = FastaFile(s)
    /\ Hash(s) \in hashSet
    /\ s.URI \in SMembers(seqSet, Hash(s))

\* C1: every upstream record below the durable cursor has its identifier in
\* the dedup entry of its content hash, and the cursor never runs ahead of
\* the records there are (no record skipped, no page counted twice), whatever
\* crashes, restarts and failed increments came before.
C1_NoRecordSkipped ==
    /\ CursorVal <= Len(upstream)
    /\ \A k \in 1..CursorVal :
          ParseOne(upstream[k]).URI
              \in SMembers(seqSet, Hash(ParseOne(upstream[k])))

\* the process has started again after a failed INCRBY that the server had
\* applied
C1_Witness ==
    /\ pc = "start"
    /\ fatal = "couldn't update offset with new records"
    /\ CursorVal = Len(upstream)
    /\ CursorVal > 0

\* C2: the cursor changes only in the step after the whole page has been
\* stored (every file written, every hash and URI added); every other step,
\* a failure or a crash among them, leaves it as it was.
C2_AdvanceOnlyAfterStoring ==
    [][CursorVal' # CursorVal =>
         /\ pc = "incr"
         /\ \A k \in DOMAIN seqs : Stored(seqs[k])]_vars

\* a crash in the middle of storing a later page: the cursor still holds the
\* earlier pages only
C2_Witness ==
    /\ pc = "dead"
    /\ phase = "interrupted"
    /\ CursorVal > 0
    /\ CursorVal < Len(upstream)

\* C3: the cursor equals the sum of the sizes of the pages whose cycles
\* advanced it, and no step ever decreases it.
C3_CursorIsSumAndMonotone ==
    /\ [](CursorVal = sumPages)
    /\ [][CursorVal' >= CursorVal]_vars

\* more than one cycle has advanced the cursor, and the process has been
\* restarted since
C3_Witness ==
    /\ CursorVal > resultLimit
    /\ pc = "start"

\* C4, as claimed: a hash has a file exactly when its identifier set is not
\* empty, in every state.
C4_StoreIffDedup ==
    \A h \in DOMAIN files \cup DOMAIN seqSet :
        (h \in DOMAIN files) <=> (SMembers(seqSet, h) # {})

\* C4, amended: a hash with a non-empty identifier set always has a file;
\* a hash with a file has a non-empty identifier set whenever no Storing phase
\* is under way or was left unfinished by a crash.
C4_StoreIffDedupWhenSettled ==
    /\ \A h \in DOMAIN seqSet : SMembers(seqSet, h) # {} => h \in DOMAIN files
    /\ phase \in {"clean", "recovered"} =>
          \A h \in DOMAIN files : SMembers(seqSet, h) # {}

\* a page has been stored to the end after an interrupted attempt
C4_Witness ==
    /\ phase = "recovered"
    /\ pc = "incr"
    /\ Cardinality(DOMAIN files) >= 2

Lacks(r) == \E name \in {"uri", "elements", "created"} : getValue(r, name) = EmptyStr

\* C5: a page holding a record that lacks a required field never gets past
\* parsing: nothing of it is stored and the cursor is not advanced.
C5_MalformedPageRejected ==
    (bytes.xml /\ \E k \in DOMAIN bytes.Results : Lacks(bytes.Results[k]))
        => pc \notin StoringPcs \cup {"incr", "sleepLong", "sleepShort"}

\* C7: a file that has its content is never touched again.
C7_FileWriteOnce ==
    [][\A h \in DOMAIN files :
          files[h] # EmptyFile => files'[h] = files[h]]_vars

\* the stores a single uninterrupted pass over the first n records leaves
HashesOf(n) == {Hash(ParseOne(upstream[k])) : k \in 1..n}

ExpectedFiles(n) ==
    [h \in HashesOf(n) |->
        FastaFile(ParseOne(upstream[CHOOSE k \in 1..n :
                                       Hash(ParseOne(upstream[k])) = h]))]

ExpectedSeqSet(n) ==
    [h \in HashesOf(n) |->
        {ParseOne(upstream[k]).URI :
            k \in {j \in 1..n : Hash(ParseOne(upstream[j])) = h}}]

\* C8: when a Storing phase ends, after however many interrupted attempts,
\* the stores are what one uninterrupted pass over the same records leaves.
C8_RerunSameEndState ==
    pc = "incr" =>
        /\ files = ExpectedFiles(CursorVal + Len(seqs))
        /\ seqSet = ExpectedSeqSet(CursorVal + Len(seqs))
        /\ hashSet = HashesOf(CursorVal + Len(seqs))

\* a page of two records stored to the end after a crash within it
C8_Witness ==
    /\ pc = "incr"
    /\ phase = "recovered"
    /\ Len(seqs) >= 2

Elements(k) == getValue(upstream[k], "elements")

KeysOf(i, j) ==
    {Digest(Elements(i)), Digest(Elements(j)), Digest(ToLower(Elements(i)))}

\* C9: two ingested records with the same sequence content and different
\* identifiers share one file and one dedup entry, which holds both
\* identifiers.
C9_DedupOneEntryBothIds ==
    \A i, j \in 1..CursorVal :
        (/\ i < j
         /\ ToLower(Elements(i)) = ToLower(Elements(j))
         /\ getValue(upstream[i], "uri") # getValue(upstream[j], "uri"))
        => /\ Cardinality(KeysOf(i, j) \cap DOMAIN files) = 1
           /\ Cardinality(KeysOf(i, j) \cap DOMAIN seqSet) = 1
           /\ \A d \in KeysOf(i, j) \cap DOMAIN seqSet :
                 {getValue(upstream[i], "uri"), getValue(upstream[j], "uri")}
                     \subseteq seqSet[d]

\* "AC" from u1 and "ac" from u2, ingested in different pages
C9_Witness ==
    \E i, j \in 1..CursorVal :
        /\ i <= resultLimit
        /\ j > resultLimit
        /\ Elements(i) # Elements(j)
        /\ ToLower(Elements(i)) = ToLower(Elements(j))
        /\ getValue(upstream[i], "uri") # getValue(upstream[j], "uri")

\* every identifier set the dedup entry of h holds at some time, the upstream
\* being ingested in its order
Held(h) == {SMembers(ExpectedSeqSet(n), h) : n \in 0..Len(upstream)}

\* C6: whatever the interleaving of the handlers and the harvester, each
\* identifier set a reconcile call has assigned to a hit is one the dedup
\* entry of that hit's hash has held.
C6_ReplyBelongsToHit ==
    \A c \in Handlers : \A i \in DOMAIN uris[c] :
        uris[c][i] \in Held(hits[c][i])

\* C10: a reconcile call that came when ingestion was complete, for hits that
\* all have a dedup entry, returns one result per hit, in the hits' order, the
\* i-th with the identifier set of the i-th hash.
C10_ReconcileComplete ==
    \A c \in Handlers :
        (/\ rpc[c] = "done"
         /\ settled[c]
         /\ \A i \in DOMAIN hits[c] : hits[c][i] \in DOMAIN seqSet)
        => /\ Len(uris[c]) = Len(hits[c])
           /\ \A i \in DOMAIN hits[c] : uris[c][i] = seqSet[hits[c][i]]

\* C11: a reconcile call one of whose own lookups has failed returns an error
\* and no result list; a call that returns an error returns no list at all.
C11_FailedLookupNoList ==
    \A c \in Handlers :
        /\ rpc[c] = "failed" => uris[c] = <<>>
        /\ lookupErr[c] => rpc[c] # "done"

\* C12: a reconcile call that returns gives every hit whose hash has no dedup
\* entry its place in the list, with the empty identifier set.
C12_UnknownHashEmptySet ==
    \A c \in Handlers :
        rpc[c] = "done"
        => /\ Len(uris[c]) = Len(hits[c])
           /\ \A i \in DOMAIN hits[c] :
                 hits[c][i] \notin DOMAIN seqSet => uris[c][i] = {}

\* C13: no step of the query path (the search tool starting or failing, a
\* lookup queued, a reply read or failed, the response written) changes the
\* cursor, the dedup index or the sequence store.
C13_QueryPathReadOnly ==
    [][qvars' # qvars => UNCHANGED <<cursor, hashSet, seqSet, files>>]_vars

\* with records ingested, a reconcile call has returned a list after an
\* earlier one had failed and left a reply unread
C13_Witness ==
    /\ CursorVal > 0
    /\ seqSet # <<>>
    /\ \E c \in Handlers : rpc[c] = "done" /\ uris[c] # <<>>
    /\ ~lastCritical
    /\ completed # <<>>

\* C14: a request whose search has failed, the search tool not started or
\* ended with an error, is answered with an error response by the time its
\* handler is over.
C14_FailureAnswered ==
    \A c \in Handlers :
        (old[c].err /\ old[c].pc \in {"returned", "panicked"})
        => old[c].out = "500"

\* C15: a cycle whose INCRBY succeeded goes to sleep; the sleep is the long one
\* exactly when the page had fewer than resultLimit records (none included)
\* and the short one exactly when it had resultLimit; the only way on from a
\* sleep, short of a crash, is the next fetch.
C15_BackoffByPageSize ==
    /\ [](pc = "sleepLong" => Len(bytes.Results) < resultLimit)
    /\ [](pc = "sleepShort" => Len(bytes.Results) = resultLimit)
    /\ [][(pc = "incr" /\ pc' \notin {"incr", "dead"})
          => pc' \in {"sleepLong", "sleepShort"}]_vars
    /\ [][(pc \in {"sleepLong", "sleepShort"} /\ pc' # pc)
          => pc' \in {"fetch", "dead"}]_vars

C15_Witness ==
    /\ pc = "sleepLong"
    /\ CursorVal > resultLimit
    /\ bytes.xml
    /\ Len(bytes.Results) \in 1..(resultLimit - 1)

\* the content hash of a sequence string as it stands
HashOf(nucl) == Hash([URI |-> EmptyStr, Sequence |-> nucl, Created |-> EmptyStr])

\* C16, as claimed: the content hash of two sequence strings that differ only
\* in case is the same.
C16_HashIgnoresCase ==
    \A i, j \in 1..Len(upstream) :
        ToLower(Elements(i)) = ToLower(Elements(j))
        => HashOf(Elements(i)) = HashOf(Elements(j))

\* C16, amended: parse lower-cases the sequence before it is hashed, so two
\* records that differ only in case get the same content hash once parsed,
\* every record the harvester holds is hashed in lower case, and every file
\* and dedup entry is kept under the hash of a lower-cased sequence: the two
\* records collapse to one store entry.
C16_ParsedHashIgnoresCase ==
    /\ \A i, j \in 1..Len(upstream) :
          ToLower(Elements(i)) = ToLower(Elements(j))
          => Hash(ParseOne(upstream[i])) = Hash(ParseOne(upstream[j]))
    /\ \A k \in DOMAIN seqs : Hash(seqs[k]) = HashOf(ToLower(seqs[k].Sequence))
    /\ \A h \in DOMAIN files \cup DOMAIN seqSet \cup hashSet :
          \E k \in 1..Len(upstream) : h = HashOf(ToLower(Elements(k)))

\* "AC" and "ac" have both been ingested, and there is one file
C16_Witness ==
    /\ \E i, j \in 1..CursorVal :
          /\ Elements(i) # Elements(j)
          /\ ToLower(Elements(i)) = ToLower(Elements(j))
    /\ Cardinality(DOMAIN files) = 1
    /\ pc \in {"sleepLong", "sleepShort"}

\* C17: no step, a crash, a restart or a failed command included, removes an
\* identifier from a dedup entry, a dedup entry from the index, or a hash from
\* the set of hashes seen.
C17_IndexOnlyGrows ==
    [][/\ \A h \in DOMAIN seqSet :
             /\ h \in DOMAIN seqSet'
             /\ seqSet[h] \subseteq seqSet'[h]
       /\ hashSet \subseteq hashSet']_vars

\* a dedup entry holds two identifiers and the process has been started again
\* after a log.Fatal
C17_Witness ==
    /\ \E h \in DOMAIN seqSet : Cardinality(seqSet[h]) >= 2
    /\ Cardinality(hashSet) >= 2
    /\ pc = "start"
    /\ fatal # ""

\* C18: whenever the harvester is about to fetch, on the first cycle after a
\* start as on the later ones, the offset it sends is the durable cursor; the
\* page it got back is the upstream's records from the cursor on, at most
\* resultLimit of them; and the next offset is the old one plus the size of
\* the page, so consecutive pages are contiguous.
C18_FetchAtCursor ==
    /\ [](pc = "fetch" => offset = CursorVal)
    /\ []((pc \in StoringPcs \cup {"parse", "incr"} /\ bytes.xml)
          => /\ offset = CursorVal
             /\ Len(bytes.Results) <= resultLimit
             /\ bytes.Results =
                   SubSeq(upstream, CursorVal + 1, CursorVal + Len(bytes.Results)))
    /\ [][(pc = "incr" /\ pc' \in {"sleepLong", "sleepShort"})
          => offset' = offset + Len(bytes.Results)]_vars

\* the first fetch after a crash in the middle of storing a later page
C18_Witness ==
    /\ pc = "parse"
    /\ phase = "interrupted"
    /\ CursorVal > 0
    /\ bytes.xml
    /\ bytes.Results # <<>>

\* C19: every reply a reconcile call reads answers a lookup that this same
\* call queued, and when no call is under way, whether the last one returned
\* a list or an error, the shared client, its connection still open, holds no
\* queued request and no unread reply.
C19_PipelineDrained ==
    /\ \A c \in Handlers : \A i \in DOMAIN from[c] :
          /\ from[c][i].by = c
          /\ from[c][i].call = rid[c]
    /\ (~lastCritical /\ \A c \in Handlers : rpc[c] \notin {"append", "resp"})
       => (completed = <<>> /\ pending = <<>>)

\* the cursor is at the end of the upstream, every record's identifier is in
\* the dedup entry of its hash, and the harvester is not on the short sleep
Harvested ==
    /\ CursorVal = Len(upstream)
    /\ \A k \in 1..Len(upstream) :
          ParseOne(upstream[k]).URI
              \in SMembers(seqSet, Hash(ParseOne(upstream[k])))
    /\ pc # "sleepShort"

\* C20: on a stable upstream of well-formed records, if from some point on the
\* process no longer dies (no crash, no failed command, no bad reply), then
\* from some point on the cursor stays at the number of records with every
\* identifier in the index, and the harvester keeps coming back to the long
\* sleep.
C20_EventuallyHarvested ==
    (<>[](pc # "dead")) => (<>[]Harvested /\ []<>(pc = "sleepLong"))

\* the whole upstream is in and a poll has found nothing new
C20_Witness ==
    /\ Len(upstream) = MaxUpstream
    /\ Harvested
    /\ pc = "sleepLong"
    /\ bytes.xml
    /\ bytes.Results = <<>>
====
